---- MODULE Spec2Model ----
(***************************************************************************)
(* Model of EmissionsCalculator (src/app.py): the three configuration      *)
(* tables built by __init__, and the methods get_load_range,               *)
(* calculate_emissions, validate_input and compare_with_peqs.              *)
(*                                                                         *)
(* Numbers.  Python floats are modelled as exact rationals [n, d] in       *)
(* lowest terms with d > 0, so two numbers are equal exactly when their    *)
(* records are equal; IEEE rounding is abstracted away.  round(x, 2) is    *)
(* modelled as round-half-to-even to hundredths.                           *)
(*                                                                         *)
(* A call is one step: the action of a method computes the whole method    *)
(* and stores the arguments in args and the outcome in ret, the line of    *)
(* the return or raise statement that ended it included.                   *)
(***************************************************************************)
EXTENDS Integers, Sequences, FiniteSets, TLC

VARIABLES steam_ranges, factors, peqs_limits, op, args, ret, prior

vars == <<steam_ranges, factors, peqs_limits, op, args, ret, prior>>

(***************************************************************************)
(* Bounds of the input space.                                              *)
(***************************************************************************)
\* steam loads are the multiples of 1/LoadScale
LoadScale == 2
\* and range over [-MaxNeg, MaxLoad]
MaxNeg == 1
MaxLoad == 151

(***************************************************************************)
(* Numbers of the program.                                                 *)
(***************************************************************************)
\* the 100 of "fuel_mix['coal']/100" and of "!= 100"
PctTotal == 100
\* the 300 of "steam_load > 300"
TypicalMax == 300

(***************************************************************************)
(* Exact rational arithmetic.                                              *)
(***************************************************************************)
Abs(x) == IF x < 0 THEN -x ELSE x

RECURSIVE GCD(_, _)
GCD(a, b) == IF b = 0 THEN a ELSE GCD(b, a % b)

R(n, d) ==
    LET g == GCD(Abs(n), Abs(d))
        s == IF d < 0 THEN -1 ELSE 1
    IN [n |-> s * (n \div g), d |-> s * (d \div g)]

I(k) == [n |-> k, d |-> 1]

RMul(a, b) ==
    LET g1 == GCD(Abs(a.n), b.d)
        g2 == GCD(Abs(b.n), a.d)
    IN IF a.n = 0 \/ b.n = 0 THEN I(0)
       ELSE [n |-> (a.n \div g1) * (b.n \div g2), d |-> (a.d \div g2) * (b.d \div g1)]

RDiv(a, b) == RMul(a, R(b.d, b.n))

RAdd(a, b) ==
    LET g == GCD(a.d, b.d)
    IN R(a.n * (b.d \div g) + b.n * (a.d \div g), (a.d \div g) * b.d)

RLe(a, b) == a.n * b.d <= b.n * a.d

RLt(a, b) == a.n * b.d < b.n * a.d

\* round(x, 2): the nearest multiple of 1/100, ties to the even one
Round2(x) ==
    LET whole == x.n \div x.d
        rem   == (x.n % x.d) * 100
        q     == rem \div x.d
        r2    == 2 * (rem % x.d)
        cents == whole * 100 + q
        up    == r2 > x.d \/ (r2 = x.d /\ cents % 2 = 1)
    IN R(IF up THEN cents + 1 ELSE cents, 100)

(***************************************************************************)
(* __init__: the configuration tables.                                     *)
(***************************************************************************)
Params == {"oxygen", "carbon_dioxide", "carbon_monoxide", "sulphur_dioxide",
           "nitrogen_dioxide", "nitrogen_oxide", "nox", "particulate_matter"}

\* a dict keeps insertion order: a sequence of entries
InitSteamRanges ==
    << [name |-> "low",    min |-> 0,  max |-> 10],
       [name |-> "medium", min |-> 11, max |-> 50],
       [name |-> "high",   min |-> 51, max |-> 150] >>

FactorRow(o2, co2, co, so2, no2, no, nox, pm) ==
    [oxygen |-> o2, carbon_dioxide |-> co2, carbon_monoxide |-> co,
     sulphur_dioxide |-> so2, nitrogen_dioxide |-> no2, nitrogen_oxide |-> no,
     nox |-> nox, particulate_matter |-> pm]

InitFactors ==
    [coal |->
       [low    |-> FactorRow(I(2), R(5, 10), I(90), I(180), I(12), I(20), I(130), I(50)),
        medium |-> FactorRow(R(4, 10), R(1, 10), I(17), I(35), I(3), I(5), I(25), I(11)),
        high   |-> FactorRow(R(13, 100), R(35, 1000), I(7), I(13), I(20), I(25), I(10), I(4))],
     biomass |->
       [low    |-> FactorRow(R(5, 10), I(3), I(85), I(180), I(12), I(25), I(125), I(55)),
        medium |-> FactorRow(R(36, 100), R(8, 100), I(17), I(35), R(24, 10), I(5), I(25), I(11)),
        high   |-> FactorRow(R(13, 100), R(26, 1000), R(56, 10), I(11), R(8, 10),
                             R(147, 100), R(835, 100), R(365, 100))]]

InitPeqsLimits ==
    << [parameter |-> "carbon_monoxide",    limit |-> 800],
       [parameter |-> "sulphur_dioxide",    limit |-> 1700],
       [parameter |-> "nox",                limit |-> 1200],
       [parameter |-> "particulate_matter", limit |-> 500] >>

InitSelf ==
    [steam_ranges |-> InitSteamRanges, factors |-> InitFactors,
     peqs_limits |-> InitPeqsLimits]

Self == [steam_ranges |-> steam_ranges, factors |-> factors, peqs_limits |-> peqs_limits]

(***************************************************************************)
(* Values passed in and out.                                               *)
(***************************************************************************)
\* fuel_mix: None, the empty dict, or a dict with the keys coal and biomass
NoneMix == [kind |-> "None", coal |-> 0, biomass |-> 0]
EmptyMix == [kind |-> "empty", coal |-> 0, biomass |-> 0]
Mix(c, b) == [kind |-> "dict", coal |-> c, biomass |-> b]

\* the truth value Python gives a fuel_mix in "fuel_type == 'mixed' and fuel_mix"
Truthy(fuel_mix) == fuel_mix.kind = "dict"

NoEmissions == [p \in {} |-> I(0)]

NoArgs == [steam_load |-> I(0), fuel_type |-> "", fuel_mix |-> NoneMix,
           emissions |-> NoEmissions]

NoRet == [exc |-> "none", line |-> 0, load_range |-> "", emissions |-> NoEmissions,
          rows |-> <<>>, ok |-> FALSE, warned |-> FALSE]

Raise(exc, line) == [NoRet EXCEPT !.exc = exc, !.line = line]

(***************************************************************************)
(* get_load_range                                                          *)
(***************************************************************************)
\* mutant: the upper bound of an interval taken as exclusive
InRange_exclusive(entry, steam_load) ==
    RLe(I(entry.min), steam_load) /\ RLt(steam_load, I(entry.max))

InRange(entry, steam_load) ==
    RLe(I(entry.min), steam_load) /\ RLe(steam_load, I(entry.max))

\* the for loop over steam_ranges.items(), from entry i on
RECURSIVE ScanRanges(_, _, _)
ScanRanges(ranges, steam_load, i) ==
    IF i > Len(ranges) THEN "high"
    ELSE IF InRange(ranges[i], steam_load) THEN ranges[i].name
    ELSE ScanRanges(ranges, steam_load, i + 1)

get_load_range(self, steam_load) == ScanRanges(self.steam_ranges, steam_load, 1)

\* self.steam_ranges[load_range]
RangeEntry(self, load_range) ==
    CHOOSE e \in {self.steam_ranges[i] : i \in 1..Len(self.steam_ranges)} :
        e.name = load_range

(***************************************************************************)
(* calculate_emissions                                                     *)
(***************************************************************************)
\* mutant: the coal percentage weighs both fuels
blend_emissions_coal_weight(self, fuel_mix, load_range) ==
    [param \in DOMAIN self.factors["coal"][load_range] |->
        RAdd(RMul(self.factors["coal"][load_range][param], R(fuel_mix.coal, PctTotal)),
             RMul(self.factors["biomass"][load_range][param], R(fuel_mix.coal, PctTotal)))]

\* the branch "fuel_type == 'mixed' and fuel_mix": the linear blend
blend_emissions(self, fuel_mix, load_range) ==
    LET coal_emissions ==
            [param \in DOMAIN self.factors["coal"][load_range] |->
                RMul(self.factors["coal"][load_range][param], R(fuel_mix.coal, PctTotal))]
        biomass_emissions ==
            [param \in DOMAIN self.factors["biomass"][load_range] |->
                RMul(self.factors["biomass"][load_range][param], R(fuel_mix.biomass, PctTotal))]
    IN [param \in DOMAIN coal_emissions |->
            RAdd(coal_emissions[param], biomass_emissions[param])]

\* mutant: scaling linear in the load, "emissions[param] *= load_factor"
scale_emissions_linear(self, emissions, steam_load, load_range) ==
    LET range_max   == RangeEntry(self, load_range).max
        load_factor == RDiv(steam_load, I(range_max))
    IN [param \in DOMAIN emissions |-> RMul(emissions[param], load_factor)]

\* "emissions[param] *= load_factor * steam_load" for every param
scale_emissions(self, emissions, steam_load, load_range) ==
    LET range_max   == RangeEntry(self, load_range).max
        load_factor == RDiv(steam_load, I(range_max))
    IN [param \in DOMAIN emissions |->
            RMul(emissions[param], RMul(load_factor, steam_load))]

\* mutant: no .copy(), the scaling writes into self.factors
calculate_emissions_no_copy(self, steam_load, fuel_type, fuel_mix) ==
    LET load_range == get_load_range(self, steam_load)
    IN IF fuel_type = "mixed" /\ Truthy(fuel_mix)
       THEN [ret |-> [NoRet EXCEPT !.line = 118, !.load_range = load_range,
                        !.emissions = scale_emissions(self,
                            blend_emissions(self, fuel_mix, load_range),
                            steam_load, load_range)],
             self |-> self]
       ELSE IF fuel_type \notin DOMAIN self.factors
       THEN [ret |-> Raise("KeyError", 109), self |-> self]
       ELSE LET emissions == scale_emissions(self, self.factors[fuel_type][load_range],
                                             steam_load, load_range)
            IN [ret |-> [NoRet EXCEPT !.line = 118, !.load_range = load_range,
                           !.emissions = emissions],
                self |-> [self EXCEPT !.factors[fuel_type][load_range] = emissions]]

\* the outcome of the call, and the object after it
calculate_emissions(self, steam_load, fuel_type, fuel_mix) ==
    LET load_range == get_load_range(self, steam_load)
    IN IF fuel_type = "mixed" /\ Truthy(fuel_mix)
       THEN [ret |-> [NoRet EXCEPT !.line = 118, !.load_range = load_range,
                        !.emissions = scale_emissions(self,
                            blend_emissions(self, fuel_mix, load_range),
                            steam_load, load_range)],
             self |-> self]
       ELSE IF fuel_type \notin DOMAIN self.factors
       THEN [ret |-> Raise("KeyError", 109), self |-> self]
       ELSE \* .copy(): the scaling writes to the copy, not to self.factors
            [ret |-> [NoRet EXCEPT !.line = 118, !.load_range = load_range,
                        !.emissions = scale_emissions(self,
                            self.factors[fuel_type][load_range],
                            steam_load, load_range)],
             self |-> self]

(***************************************************************************)
(* validate_input                                                          *)
(***************************************************************************)
\* mutant: the fuel type is not checked
validate_input_any_fuel(self, steam_load, fuel_type, fuel_mix) ==
    IF RLe(steam_load, I(0))
    THEN Raise("ValueError: Steam load must be greater than 0 TPH", 122)
    ELSE IF fuel_type = "mixed" /\ Truthy(fuel_mix)
            /\ fuel_mix.coal + fuel_mix.biomass # PctTotal
    THEN [Raise("ValueError: Fuel mix percentages must sum to 100%", 131)
            EXCEPT !.warned = RLt(I(TypicalMax), steam_load)]
    ELSE [NoRet EXCEPT !.line = 133, !.ok = TRUE,
                       !.warned = RLt(I(TypicalMax), steam_load)]

validate_input(self, steam_load, fuel_type, fuel_mix) ==
    IF RLe(steam_load, I(0))
    THEN Raise("ValueError: Steam load must be greater than 0 TPH", 122)
    ELSE IF fuel_type \notin {"coal", "biomass", "mixed"}
    THEN [Raise("ValueError: Invalid fuel type", 127)
            EXCEPT !.warned = RLt(I(TypicalMax), steam_load)]
    ELSE IF fuel_type = "mixed" /\ Truthy(fuel_mix)
            /\ fuel_mix.coal + fuel_mix.biomass # PctTotal
    THEN [Raise("ValueError: Fuel mix percentages must sum to 100%", 131)
            EXCEPT !.warned = RLt(I(TypicalMax), steam_load)]
    ELSE [NoRet EXCEPT !.line = 133, !.ok = TRUE, !.warned = RLt(I(TypicalMax), steam_load)]

(***************************************************************************)
(* compare_with_peqs                                                       *)
(***************************************************************************)
\* parameter.replace('_', ' ').title()
Title(parameter) ==
    CASE parameter = "carbon_monoxide"    -> "Carbon Monoxide"
      [] parameter = "sulphur_dioxide"    -> "Sulphur Dioxide"
      [] parameter = "nox"                -> "Nox"
      [] parameter = "particulate_matter" -> "Particulate Matter"

\* mutant: a value at the limit counts as exceeded
compare_with_peqs_strict(self, emissions) ==
    [i \in 1..Len(self.peqs_limits) |->
        LET parameter  == self.peqs_limits[i].parameter
            limit      == self.peqs_limits[i].limit
            calculated == emissions[parameter]
        IN [Parameter  |-> Title(parameter),
            Calculated |-> Round2(calculated),
            status     |-> IF RLt(calculated, I(limit)) THEN "Compliant" ELSE "Exceeded",
            percentage |-> RMul(RDiv(calculated, I(limit)), I(100))]]

\* one row per entry of peqs_limits, in its order; status and percentage are
\* the locals of the loop body
compare_with_peqs(self, emissions) ==
    [i \in 1..Len(self.peqs_limits) |->
        LET parameter  == self.peqs_limits[i].parameter
            limit      == self.peqs_limits[i].limit
            calculated == emissions[parameter]
        IN [Parameter  |-> Title(parameter),
            Calculated |-> Round2(calculated),
            status     |-> IF RLe(calculated, I(limit)) THEN "Compliant" ELSE "Exceeded",
            percentage |-> RMul(RDiv(calculated, I(limit)), I(100))]]

(***************************************************************************)
(* The inputs.                                                             *)
(***************************************************************************)
Loads == {R(k, LoadScale) : k \in (-MaxNeg * LoadScale)..(MaxLoad * LoadScale)}

\* and the loads around the warning threshold of validate_input
WarnLoads == {R(TypicalMax * LoadScale + k, LoadScale) : k \in (-1)..1}

\* fuel-mix percentages: -50, 0, 50, 100, 150
Pcts == {(k * PctTotal) \div 2 : k \in (-1)..3}

Mixes == {NoneMix, EmptyMix} \cup {Mix(c, b) : c \in Pcts, b \in Pcts}

FuelTypes == {"coal", "biomass", "mixed", "gas"}

(***************************************************************************)
(* The state machine: calls on one EmissionsCalculator.                    *)
(***************************************************************************)
Init ==
    /\ steam_ranges = InitSteamRanges
    /\ factors = InitFactors
    /\ peqs_limits = InitPeqsLimits
    /\ op = "idle"
    /\ args = NoArgs
    /\ ret = NoRet
    /\ prior = "none"

\* a finished call: its outcome, and the object after it
Finish(name, a, r, self) ==
    /\ op' = name
    /\ args' = a
    /\ ret' = r
    /\ UNCHANGED prior
    /\ steam_ranges' = self.steam_ranges
    /\ factors' = self.factors
    /\ peqs_limits' = self.peqs_limits

GetLoadRange ==
    /\ op = "idle"
    /\ \E steam_load \in Loads \cup WarnLoads :
          Finish("get_load_range",
                 [NoArgs EXCEPT !.steam_load = steam_load],
                 [NoRet EXCEPT !.load_range = get_load_range(Self, steam_load),
                               !.line = IF \E i \in 1..Len(steam_ranges) :
                                              InRange(steam_ranges[i], steam_load)
                                        THEN 94 ELSE 95],
                 Self)

CalculateEmissions ==
    /\ op = "idle"
    /\ \E steam_load \in Loads, fuel_type \in FuelTypes, fuel_mix \in Mixes :
          LET c == calculate_emissions(Self, steam_load, fuel_type, fuel_mix)
          IN Finish("calculate_emissions",
                    [NoArgs EXCEPT !.steam_load = steam_load, !.fuel_type = fuel_type,
                                   !.fuel_mix = fuel_mix],
                    c.ret, c.self)

ValidateInput ==
    /\ op = "idle"
    /\ \E steam_load \in Loads \cup WarnLoads, fuel_type \in FuelTypes, fuel_mix \in Mixes :
          Finish("validate_input",
                 [NoArgs EXCEPT !.steam_load = steam_load, !.fuel_type = fuel_type,
                                !.fuel_mix = fuel_mix],
                 validate_input(Self, steam_load, fuel_type, fuel_mix),
                 Self)

\* display_results hands the emissions of a calculation to compare_with_peqs
CompareWithPeqs ==
    /\ op = "idle"
    /\ \E steam_load \in Loads, fuel_type \in FuelTypes, fuel_mix \in Mixes :
          LET c == calculate_emissions(Self, steam_load, fuel_type, fuel_mix)
          IN /\ c.ret.exc = "none"
             /\ Finish("compare_with_peqs",
                       [NoArgs EXCEPT !.emissions = c.ret.emissions],
                       [NoRet EXCEPT !.rows = compare_with_peqs(Self, c.ret.emissions)],
                       Self)

\* the caller is done with the returned value or the exception; prior keeps
\* how the call ended
Discard ==
    /\ op # "idle"
    /\ op' = "idle"
    /\ args' = NoArgs
    /\ ret' = NoRet
    /\ prior' = IF ret.exc = "none" THEN "returned" ELSE "raised"
    /\ UNCHANGED <<steam_ranges, factors, peqs_limits>>

Next ==
    \/ GetLoadRange
    \/ CalculateEmissions
    \/ ValidateInput
    \/ CompareWithPeqs
    \/ Discard

Spec == Init /\ [][Next]_vars

(***************************************************************************)
(* Properties.                                                             *)
(***************************************************************************)
Between(lo, x, hi) == RLe(I(lo), x) /\ RLe(x, I(hi))

\* the upper bound the specification gives each load range
RangeMax(load_range) ==
    CASE load_range = "low" -> 10
      [] load_range = "medium" -> 50
      [] load_range = "high" -> 150

\* C1: get_load_range returns low for every load in [0,10], medium for every
\* load in [11,50], high for every load in [51,150] and high for every load
\* above 150.
C1_LoadRangeBands ==
    op = "get_load_range" =>
        /\ Between(0, args.steam_load, 10) => ret.load_range = "low"
        /\ Between(11, args.steam_load, 50) => ret.load_range = "medium"
        /\ Between(51, args.steam_load, 150) => ret.load_range = "high"
        /\ RLt(I(150), args.steam_load) => ret.load_range = "high"

\* a load above 150 took the fallback return
C1_Witness ==
    /\ op = "get_load_range"
    /\ args.steam_load = I(151)
    /\ ret.load_range = "high"
    /\ ret.line = 95

\* C2: for coal or biomass and every load > 0, calculate_emissions returns
\* for each of the eight pollutants final * range_max = base * load^2, with
\* base the table factor of (fuel, resolved range) and range_max the upper
\* bound of the resolved range (150 above 150); at load = range_max,
\* final = base * load.
C2_QuadraticScaling ==
    (/\ op = "calculate_emissions"
     /\ args.fuel_type \in {"coal", "biomass"}
     /\ RLt(I(0), args.steam_load))
    => /\ ret.exc = "none"
       /\ ret.load_range \in {"low", "medium", "high"}
       /\ RLt(I(150), args.steam_load) => ret.load_range = "high"
       /\ DOMAIN ret.emissions = Params
       /\ \A p \in Params :
            LET base == InitFactors[args.fuel_type][ret.load_range][p]
                range_max == RangeMax(ret.load_range)
            IN /\ RMul(ret.emissions[p], I(range_max))
                    = RMul(base, RMul(args.steam_load, args.steam_load))
               /\ args.steam_load = I(range_max)
                    => ret.emissions[p] = RMul(base, args.steam_load)

\* biomass at load 50: sulphur_dioxide 35 becomes 1750
C2_Witness ==
    /\ op = "calculate_emissions"
    /\ args.fuel_type = "biomass"
    /\ args.steam_load = I(50)
    /\ ret.load_range = "medium"
    /\ ret.emissions["sulphur_dioxide"] = I(1750)

\* C3: for mixed fuel with a mix summing to 100, the base factor of each
\* pollutant is factor_coal * coal_pct/100 + factor_biomass * biomass_pct/100
\* from the tables of the resolved range, so the result is that base scaled
\* by load^2 / range_max; with coal_pct = 100 the result is the pure-coal
\* result and with coal_pct = 0 the pure-biomass result.
C3_LinearBlend ==
    (/\ op = "calculate_emissions"
     /\ args.fuel_type = "mixed"
     /\ args.fuel_mix.kind = "dict"
     /\ args.fuel_mix.coal + args.fuel_mix.biomass = 100)
    => /\ ret.exc = "none"
       /\ DOMAIN ret.emissions = Params
       /\ \A p \in Params :
            LET fc == InitFactors["coal"][ret.load_range][p]
                fb == InitFactors["biomass"][ret.load_range][p]
                base == RAdd(RMul(fc, R(args.fuel_mix.coal, 100)),
                             RMul(fb, R(args.fuel_mix.biomass, 100)))
                range_max == RangeMax(ret.load_range)
            IN /\ RMul(ret.emissions[p], I(range_max))
                    = RMul(base, RMul(args.steam_load, args.steam_load))
               /\ args.fuel_mix.coal = 100 =>
                    RMul(ret.emissions[p], I(range_max))
                        = RMul(fc, RMul(args.steam_load, args.steam_load))
               /\ args.fuel_mix.coal = 0 =>
                    RMul(ret.emissions[p], I(range_max))
                        = RMul(fb, RMul(args.steam_load, args.steam_load))

\* coal 50, biomass 50 at load 10: oxygen 0.5*2 + 0.5*0.5 = 1.25 becomes 12.5
C3_Witness ==
    /\ op = "calculate_emissions"
    /\ args.fuel_type = "mixed"
    /\ args.fuel_mix = Mix(50, 50)
    /\ args.steam_load = I(10)
    /\ ret.emissions["oxygen"] = R(125, 10)

\* the limited pollutants and their limits, in the order of the specification
LimitedParams == <<"carbon_monoxide", "sulphur_dioxide", "nox", "particulate_matter">>
RowLabels == <<"Carbon Monoxide", "Sulphur Dioxide", "Nox", "Particulate Matter">>
Limits == <<800, 1700, 1200, 500>>

\* C4: compare_with_peqs produces exactly one row per limited pollutant, in
\* the order carbon_monoxide, sulphur_dioxide, nox, particulate_matter, none
\* for oxygen or carbon_dioxide; a row is Compliant iff calculated <= limit
\* and Exceeded otherwise, and its percentage is calculated / limit * 100.
C4_ComplianceRows ==
    op = "compare_with_peqs" =>
        /\ Len(ret.rows) = 4
        /\ \A i \in 1..4 :
             LET calculated == args.emissions[LimitedParams[i]]
                 row == ret.rows[i]
             IN /\ row.Parameter = RowLabels[i]
                /\ row.status \in {"Compliant", "Exceeded"}
                /\ row.status = "Compliant" <=> RLe(calculated, I(Limits[i]))
                /\ RMul(row.percentage, I(Limits[i])) = RMul(calculated, I(100))

\* particulate matter exactly at its limit of 500 is Compliant
C4_Witness ==
    /\ op = "compare_with_peqs"
    /\ args.emissions["particulate_matter"] = I(500)
    /\ ret.rows[4].status = "Compliant"
    /\ ret.rows[4].percentage = I(100)
    /\ ret.rows[1].status = "Exceeded"

\* C5: a steam_load <= 0 is rejected: validate_input raises, and
\* calculate_emissions raises and returns no result.
C5_NonPositiveLoadRejected ==
    (/\ op \in {"validate_input", "calculate_emissions"}
     /\ RLe(args.steam_load, I(0)))
    => /\ ret.exc # "none"
       /\ ret.emissions = NoEmissions
       /\ ~ret.ok

\* C6: with fuel type mixed, a missing fuel_mix (None or empty) or a mix not
\* summing to 100 makes validation raise and calculate_emissions return no
\* result.
C6_InvalidMixRejected ==
    (/\ op \in {"validate_input", "calculate_emissions"}
     /\ args.fuel_type = "mixed"
     /\ \/ args.fuel_mix.kind # "dict"
        \/ args.fuel_mix.coal + args.fuel_mix.biomass # 100)
    => /\ ret.exc # "none"
       /\ ret.emissions = NoEmissions
       /\ ~ret.ok

\* C7: for every fuel type outside coal, biomass, mixed, validate_input and
\* calculate_emissions both end in an error with no result, whatever the
\* load and the mix, and calculate_emissions ends before the scaling step.
C7_UnknownFuelRejected ==
    (/\ op \in {"validate_input", "calculate_emissions"}
     /\ args.fuel_type \notin {"coal", "biomass", "mixed"})
    => /\ ret.exc # "none"
       /\ ret.emissions = NoEmissions
       /\ ret.load_range = ""
       /\ ~ret.ok
       /\ op = "calculate_emissions" => ret.line < 112

\* calculate_emissions with fuel gas and a mix present raised at the table lookup
C7_Witness ==
    /\ op = "calculate_emissions"
    /\ args.fuel_type = "gas"
    /\ args.fuel_mix = Mix(50, 50)
    /\ RLt(I(0), args.steam_load)
    /\ ret.exc = "KeyError"
    /\ ret.line = 109

\* C8: after any sequence of calls, raising ones included, the three tables
\* have their initial values, and a calculate_emissions call returns what
\* the same call returns on a freshly constructed calculator.
C8_TablesUnchanged ==
    /\ steam_ranges = InitSteamRanges
    /\ factors = InitFactors
    /\ peqs_limits = InitPeqsLimits
    /\ op = "calculate_emissions" =>
         ret = calculate_emissions(InitSelf, args.steam_load, args.fuel_type,
                                   args.fuel_mix).ret

\* a calculation that returned, made after a call that raised
C8_Witness ==
    /\ prior = "raised"
    /\ op = "calculate_emissions"
    /\ args.fuel_type = "coal"
    /\ ret.exc = "none"
    /\ ret.emissions["carbon_monoxide"] = I(900)

\* C9: every load in [0,150], integer or fractional, lies in exactly one of
\* the intervals low, medium, high and get_load_range returns that interval's
\* range; the fallback is taken only above 150.
C9_IntervalsCoverLoads ==
    (op = "get_load_range" /\ Between(0, args.steam_load, 150))
    => /\ Cardinality({i \in 1..Len(steam_ranges) :
                          InRange(steam_ranges[i], args.steam_load)}) = 1
       /\ \E i \in 1..Len(steam_ranges) :
             /\ InRange(steam_ranges[i], args.steam_load)
             /\ ret.load_range = steam_ranges[i].name
       /\ ret.line = 94

\* C10: with fuel type mixed, a mix that sums to 100 but has a negative
\* component is rejected by validate_input and never blended by
\* calculate_emissions.
C10_NegativeComponentRejected ==
    (/\ op \in {"validate_input", "calculate_emissions"}
     /\ args.fuel_type = "mixed"
     /\ args.fuel_mix.kind = "dict"
     /\ args.fuel_mix.coal + args.fuel_mix.biomass = 100
     /\ (args.fuel_mix.coal < 0 \/ args.fuel_mix.biomass < 0))
    => /\ ret.exc # "none"
       /\ ret.emissions = NoEmissions
       /\ ~ret.ok

====
